---- MODULE Spec2Model ----
(***************************************************************************)
(* Menu Image Generator (src/app.py): the menu-text normalizer             *)
(* parse_menu_items and the script main / process_menu_items that feeds    *)
(* its output to the image-generation service.                             *)
(*                                                                         *)
(* A Python str is modelled as a sequence of one-character strings, so     *)
(* that splitting, stripping and the two regular-expression substitutions  *)
(* are computed character by character, as the code computes them.         *)
(***************************************************************************)
EXTENDS Naturals, Sequences, FiniteSets

(* ------------------------------ bounds -------------------------------- *)

\* longest text drawn character by character
MaxTextLen == 4
\* most lines of a text assembled from sample lines
MaxLines == 3

(* --------------------------- character classes ------------------------ *)

NL == "\n"
\* characters str.strip() with no argument removes
Whitespace == {" ", "\t", "\r", "\f", NL}
\* characters the pattern \d matches
Digits == {"0", "1", "2", "3", "4", "5", "6", "7", "8", "9"}
\* the argument of cleaned_line.strip(' .-')
BoundaryChars == {" ", ".", "-"}
\* the length a trimmed line must exceed
MinLineLen == 3

(* ------------------------------ str helpers --------------------------- *)

RECURSIVE LStrip(_, _)
LStrip(s, chars) ==
    IF s = <<>> THEN <<>>
    ELSE IF Head(s) \in chars THEN LStrip(Tail(s), chars) ELSE s

RECURSIVE RStrip(_, _)
RStrip(s, chars) ==
    IF s = <<>> THEN <<>>
    ELSE IF s[Len(s)] \in chars THEN RStrip(SubSeq(s, 1, Len(s) - 1), chars) ELSE s

\* str.strip(chars)
Strip(s, chars) == RStrip(LStrip(s, chars), chars)

\* text.split('\n'): always at least one line, the last one possibly empty
RECURSIVE SplitFrom(_, _)
SplitFrom(s, cur) ==
    IF s = <<>> THEN <<cur>>
    ELSE IF Head(s) = NL THEN <<cur>> \o SplitFrom(Tail(s), <<>>)
    ELSE SplitFrom(Tail(s), Append(cur, Head(s)))

SplitLines(text) == SplitFrom(text, <<>>)

\* "\n".join(items)
RECURSIVE JoinLines(_)
JoinLines(ls) ==
    IF ls = <<>> THEN <<>>
    ELSE IF Len(ls) = 1 THEN ls[1]
    ELSE ls[1] \o <<NL>> \o JoinLines(Tail(ls))

(* ------------------------ regular expressions ------------------------- *)

\* number of leading characters of s that are digits: a greedy \d*
RECURSIVE DigitRun(_)
DigitRun(s) ==
    IF s # <<>> /\ Head(s) \in Digits THEN 1 + DigitRun(Tail(s)) ELSE 0

Drop(s, n) == SubSeq(s, n + 1, Len(s))

\* length of the match of \d+\.?\d* at the start of s, 0 when there is none
NumberMatch(s) ==
    LET d == DigitRun(s) IN
    IF d = 0 THEN 0
    ELSE LET r == Drop(s, d) IN
         IF r # <<>> /\ Head(r) = "." THEN d + 1 + DigitRun(Tail(r)) ELSE d

\* length of the match of \$\d+\.?\d* at the start of s, 0 when there is none
PriceMatch(s) ==
    IF s # <<>> /\ Head(s) = "$" /\ NumberMatch(Tail(s)) > 0
    THEN 1 + NumberMatch(Tail(s)) ELSE 0

\* re.sub(r'\$\d+\.?\d*', '', s): leftmost non-overlapping matches removed
RECURSIVE RemovePrices(_)
RemovePrices(s) ==
    IF s = <<>> THEN <<>>
    ELSE IF PriceMatch(s) > 0 THEN RemovePrices(Drop(s, PriceMatch(s)))
    ELSE <<Head(s)>> \o RemovePrices(Tail(s))

\* a mutant of RemoveNumbers: only the first match removed (count=1)
RemoveNumbersOnce(s) ==
    IF \E k \in 1..Len(s) : s[k] \in Digits
    THEN LET k == CHOOSE j \in 1..Len(s) : s[j] \in Digits /\ \A m \in 1..(j - 1) : s[m] \notin Digits
         IN SubSeq(s, 1, k - 1) \o Drop(s, k - 1 + NumberMatch(Drop(s, k - 1)))
    ELSE s

\* re.sub(r'\d+\.?\d*', '', s)
RECURSIVE RemoveNumbers(_)
RemoveNumbers(s) ==
    IF s = <<>> THEN <<>>
    ELSE IF NumberMatch(s) > 0 THEN RemoveNumbers(Drop(s, NumberMatch(s)))
    ELSE <<Head(s)>> \o RemoveNumbers(Tail(s))

(* --------------------------- parse_menu_items ------------------------- *)

\* line = line.strip()
TrimLine(line) == Strip(line, Whitespace)

\* a mutant of PassesLengthTest: the comparison off by one
PassesLengthTestGE(line) == line # <<>> /\ Len(line) >= MinLineLen

\* if line and len(line) > 3, on the trimmed line
PassesLengthTest(line) == line # <<>> /\ Len(line) > MinLineLen

\* a mutant of StripBoundary: the hyphen left out of the characters stripped
StripBoundaryNoHyphen(s) == Strip(s, BoundaryChars \ {"-"})

\* cleaned_line.strip(' .-')
StripBoundary(s) == Strip(s, BoundaryChars)

\* a mutant of CleanLine: the removal of bare numbers left out
CleanLinePricesOnly(line) == StripBoundary(RemovePrices(line))

\* the three statements that build cleaned_line from a trimmed line
CleanLine(line) == StripBoundary(RemoveNumbers(RemovePrices(line)))

\* a mutant of AppendItem: a name already in the list is not added again
AppendItemDedup(items, cleaned) ==
    IF \E k \in 1..Len(items) : items[k] = cleaned THEN items ELSE Append(items, cleaned)

\* a mutant of AppendItem: the new item put first
PrependItem(items, cleaned) == <<cleaned>> \o items

\* items.append(cleaned_line)
AppendItem(items, cleaned) == Append(items, cleaned)

\* one iteration of the loop over lines
ParseLine(items, rawline) ==
    LET line == TrimLine(rawline) IN
    IF PassesLengthTest(line)
    THEN LET cleaned_line == CleanLine(line) IN
         IF cleaned_line # <<>> THEN AppendItem(items, cleaned_line) ELSE items
    ELSE items

RECURSIVE ParseLoop(_, _)
ParseLoop(items, lines) ==
    IF lines = <<>> THEN items
    ELSE ParseLoop(ParseLine(items, Head(lines)), Tail(lines))

parse_menu_items(text) == ParseLoop(<<>>, SplitLines(text))

(* ------------------------------- inputs ------------------------------- *)

\* the characters texts are drawn from: a letter, a digit, the currency
\* marker, the three boundary characters, a punctuation mark that is no
\* boundary character, a whitespace character other than the space, and
\* the line delimiter
Alphabet == {"a", "1", "$", ".", "-", " ", ",", "\t", NL}

SeqsUpTo(S, n) == UNION {[1..k -> S] : k \in 0..n}

CharTexts == SeqsUpTo(Alphabet, MaxTextLen)

LineTea == <<"T", "e", "a">>
LineTeas == <<"T", "e", "a", "s">>
LinePie == <<"P", "i", "e", " ", "2">>
LineSoda == <<"S", "o", "d", "a", " ", "$", "2">>
LineDal == <<"1", ".", " ", "D", "a", "l", " ", "-", " ", "2", "5">>
LinePrice == <<"1", "2", ".", "5", "0">>
LineBlank == <<" ", " ">>

\* whole lines as a menu holds them
SampleLines == {LineTea, LineTeas, LinePie, LineSoda, LineDal, LinePrice, LineBlank}

LineTexts == {JoinLines(ls) : ls \in SeqsUpTo(SampleLines, MaxLines)}

\* the inputs of the normalizer taken alone
NormTexts == CharTexts \cup LineTexts

\* the lines of the texts a user of the app pastes or the OCR returns
AppLines == {LineTeas, LinePie, LinePrice}

MenuTexts == {JoinLines(ls) : ls \in SeqsUpTo(AppLines, MaxLines)}

\* what pytesseract.image_to_string may return: a menu, or blank space only
OcrTexts == MenuTexts \cup {<<" ", NL>>}

\* st.number_input("Max items to process", min_value=1, max_value=20)
MinMaxItems == 1
MaxMaxItems == 20
\* the largest max_items drawn besides the widget's maximum
MaxItemsDrawn == 3
MaxItemsChoices == {n \in MinMaxItems..MaxMaxItems : n <= MaxItemsDrawn \/ n = MaxMaxItems}

(* -------------------------------- state ------------------------------- *)

VARIABLES
    pc,          \* position of the script run
    api_key,     \* os.getenv("GEMINI_API_KEY"): "" when absent or empty
    client,      \* main's client: TRUE once genai.Client was built
    max_items,   \* the sidebar's number input
    tab,         \* 0 before the tabs, then the tab whose block runs
    text,        \* extracted_text (tab 1) or menu_text (tab 2)
    ocr_failed,  \* pytesseract raised in extract_text_from_image
    menu_items,  \* what parse_menu_items returned
    batch,       \* process_menu_items' parameter menu_items
    i,           \* items of batch the loop has handled
    calls,       \* the items whose prompt went to client.models.generate_image
    report,      \* what the loop rendered, one entry per item handled
    alerts,      \* errors and warnings shown in the current container
    success,     \* the counts st.success reported in the current container
    renorm,      \* parse_menu_items of the joined menu_items (normalizer alone)
    lra          \* a LinearRegressionAnalysis instance and its last call

vars == <<pc, api_key, client, max_items, tab, text, ocr_failed, menu_items,
          batch, i, calls, report, alerts, success, renorm, lra>>

\* an attribute that is None is the empty sequence, a value v is <<v>>
None == <<>>
Some(v) == <<v>>

\* LinearRegressionAnalysis(): X, y and y_pred are None, the model is not
\* fitted, mse and r2 do not exist; no method was called yet
NewAnalysis ==
    [X |-> None, y |-> None, fitted_on |-> None, y_pred |-> None,
     metrics |-> None, is_fitted |-> FALSE,
     last |-> [op |-> "__init__", result |-> "ok", lens |-> <<0, 0>>]]

Blank ==
    /\ client = FALSE /\ max_items = 0 /\ tab = 0
    /\ ocr_failed = FALSE /\ menu_items = <<>> /\ batch = <<>> /\ i = 0
    /\ calls = <<>> /\ report = <<>> /\ alerts = {} /\ success = <<>>
    /\ renorm = <<>> /\ lra = NewAnalysis

(* --------------------------- the normalizer alone --------------------- *)

InitNorm == pc = "norm_input" /\ api_key = "" /\ Blank /\ text \in NormTexts

\* items = parse_menu_items(s)
NormParse ==
    /\ pc = "norm_input"
    /\ menu_items' = parse_menu_items(text)
    /\ pc' = "norm_parsed"
    /\ UNCHANGED <<api_key, client, max_items, tab, text, ocr_failed, batch, i,
                   calls, report, alerts, success, renorm, lra>>

\* parse_menu_items("\n".join(items))
NormReparse ==
    /\ pc = "norm_parsed"
    /\ renorm' = parse_menu_items(JoinLines(menu_items))
    /\ pc' = "norm_done"
    /\ UNCHANGED <<api_key, client, max_items, tab, text, ocr_failed, menu_items,
                   batch, i, calls, report, alerts, success, lra>>

NextNorm == NormParse \/ NormReparse

SpecNorm == InitNorm /\ [][NextNorm]_vars

(* ------------------------------- the app ------------------------------ *)

Min(a, b) == IF a <= b THEN a ELSE b

\* menu_items[:max_items]
Prefix(items, n) == SubSeq(items, 1, Min(n, Len(items)))

\* where control goes when process_menu_items returns to main
AfterBatch(t) == IF t = 1 THEN "tab2" ELSE "returned"

\* os.getenv returns None for a variable that is not set
Unset == "<unset>"

Init == pc = "start" /\ api_key \in {Unset, "", "key"} /\ Blank /\ text = <<>>

\* a mutant of HasKey: the test of the key left out
HasKeyUnchecked(key) == TRUE

\* setup_gemini's test of the key: if not api_key
HasKey(key) == key \notin {Unset, ""}

\* client = setup_gemini(); if not client: return
Setup ==
    /\ pc = "start"
    /\ IF HasKey(api_key)
       THEN client' = TRUE /\ pc' = "sidebar" /\ alerts' = alerts
       ELSE client' = FALSE /\ pc' = "returned" /\ alerts' = alerts \cup {"setup_error"}
    /\ UNCHANGED <<api_key, max_items, tab, text, ocr_failed, menu_items, batch, i,
                   calls, report, success, renorm, lra>>

\* the sidebar's widgets
Sidebar ==
    /\ pc = "sidebar"
    /\ max_items' \in MaxItemsChoices
    /\ pc' = "tab1"
    /\ UNCHANGED <<api_key, client, tab, text, ocr_failed, menu_items, batch, i,
                   calls, report, alerts, success, renorm, lra>>

\* process_menu_items(list, client, image_size), up to the button
process_menu_items(t, list, shown) ==
    /\ batch' = list
    /\ i' = 0
    /\ calls' = <<>>
    /\ report' = <<>>
    /\ IF list = <<>>
       THEN alerts' = shown \cup {"no_items"} /\ pc' = AfterBatch(t)
       ELSE alerts' = shown /\ pc' = "button"

\* a mutant of Truncate: the whole list handed on
TruncateNone(items, n) == items

\* the list main hands to process_menu_items
Truncate(items, n) == Prefix(items, n)

\* tab 1 with no file uploaded
Tab1NoUpload ==
    /\ pc = "tab1"
    /\ tab' = 1
    /\ pc' = "tab2"
    /\ alerts' = {}
    /\ UNCHANGED <<api_key, client, max_items, text, ocr_failed, menu_items, batch,
                   i, calls, report, success, renorm, lra>>

\* tab 1, Image.open raises: the error is shown and main returns
Tab1LoadError ==
    /\ pc = "tab1"
    /\ tab' = 1
    /\ pc' = "returned"
    /\ alerts' = {"load_error"}
    /\ UNCHANGED <<api_key, client, max_items, text, ocr_failed, menu_items, batch,
                   i, calls, report, success, renorm, lra>>

\* a mutant of extract_text_from_image: the text returned whether or not the OCR raised
ExtractIgnoringFailure(raised, raw) == TrimLine(raw)

\* the value extract_text_from_image returns: "" when the OCR raised,
\* text.strip() otherwise
extract_text_from_image(raised, raw) == IF raised THEN <<>> ELSE TrimLine(raw)

\* tab 1 with a readable image: extraction, then the branch on extracted_text
Tab1Upload ==
    /\ pc = "tab1"
    /\ tab' = 1
    /\ \E raised \in BOOLEAN, raw \in OcrTexts :
         LET extracted_text == extract_text_from_image(raised, raw)
             shown == IF raised THEN {"ocr_error"} ELSE {}
         IN /\ ocr_failed' = raised
            /\ text' = extracted_text
            /\ IF extracted_text # <<>>
               THEN LET parsed == parse_menu_items(extracted_text) IN
                    /\ menu_items' = parsed
                    /\ process_menu_items(1, Truncate(parsed, max_items), shown)
               ELSE /\ alerts' = shown \cup {"no_text"}
                    /\ pc' = "tab2"
                    /\ UNCHANGED <<menu_items, batch, i, calls, report>>
    /\ UNCHANGED <<api_key, client, max_items, success, renorm, lra>>

\* tab 2 with an empty text area
Tab2Empty ==
    /\ pc = "tab2"
    /\ tab' = 2
    /\ text' = <<>>
    /\ pc' = "returned"
    /\ alerts' = {}
    /\ success' = <<>>
    /\ UNCHANGED <<api_key, client, max_items, ocr_failed, menu_items, batch, i,
                   calls, report, renorm, lra>>

\* tab 2 with menu text
Tab2Text ==
    /\ pc = "tab2"
    /\ tab' = 2
    /\ \E menu_text \in MenuTexts \ {<<>>} :
         LET parsed == parse_menu_items(menu_text) IN
         /\ text' = menu_text
         /\ menu_items' = parsed
         /\ process_menu_items(2, Truncate(parsed, max_items), {})
    /\ success' = <<>>
    /\ UNCHANGED <<api_key, client, max_items, ocr_failed, renorm, lra>>

\* st.button("Generate Images") returns True
ClickGenerate ==
    /\ pc = "button"
    /\ pc' = "generating"
    /\ UNCHANGED <<api_key, client, max_items, tab, text, ocr_failed, menu_items,
                   batch, i, calls, report, alerts, success, renorm, lra>>

\* process_menu_items returns: its parameter and the loop's state are gone
ReturnToMain(t) ==
    /\ pc' = AfterBatch(t)
    /\ batch' = <<>>
    /\ i' = 0
    /\ calls' = <<>>
    /\ report' = <<>>

\* st.button("Generate Images") returns False: process_menu_items returns
SkipGenerate ==
    /\ pc = "button"
    /\ ReturnToMain(tab)
    /\ UNCHANGED <<api_key, client, max_items, tab, text, ocr_failed, menu_items,
                   alerts, success, renorm, lra>>

\* what generate_image_with_imagen and the display of its result come to:
\* "image" a PIL image shown, "display_error" st.image raised, "invalid" an
\* object that is no PIL image, "empty" no image in the response (None),
\* "exception" the service call raised (None)
Outcomes == {"image", "display_error", "invalid", "empty", "exception"}

\* the errors the loop shows for an outcome
Rendered(item, outcome) ==
    [item |-> item,
     returned |-> CASE outcome \in {"image", "display_error"} -> "pil_image"
                    [] outcome = "invalid" -> "object"
                    [] outcome \in {"empty", "exception"} -> "None",
     shown |-> outcome = "image",
     errors |-> CASE outcome = "image" -> <<>>
                  [] outcome = "display_error" -> <<"error_displaying">>
                  [] outcome = "invalid" -> <<"invalid_format">>
                  [] outcome = "empty" -> <<"failed_to_generate">>
                  [] outcome = "exception" -> <<"error_generating", "failed_to_generate">>]

\* a mutant of MoreItems: the loop left at the first failure
MoreItemsUnlessFailed(k, list) ==
    k < Len(list) /\ \A j \in 1..Len(report) : report[j].errors = <<>>

\* the loop's exit test: items remain
MoreItems(k, list) == k < Len(list)

\* one iteration of the loop over menu_items: one call of the service
GenerateItem ==
    /\ pc = "generating"
    /\ MoreItems(i, batch)
    /\ \E outcome \in Outcomes :
         LET item == batch[i + 1] IN
         /\ calls' = Append(calls, item)
         /\ report' = Append(report, Rendered(item, outcome))
    /\ i' = i + 1
    /\ UNCHANGED <<pc, api_key, client, max_items, tab, text, ocr_failed, menu_items,
                   batch, alerts, success, renorm, lra>>

\* a mutant of SuccessCount: the images shown are counted
SuccessCountShown(list, rep) == Cardinality({k \in 1..Len(rep) : rep[k].shown})

\* the count of st.success(f"Generated {len(menu_items)} images successfully!")
SuccessCount(list, rep) == Len(list)

\* after the loop: the closing messages
FinishBatch ==
    /\ pc = "generating"
    /\ ~MoreItems(i, batch)
    /\ success' = Append(success, SuccessCount(batch, report))
    /\ pc' = "complete"
    /\ UNCHANGED <<api_key, client, max_items, tab, text, ocr_failed, menu_items,
                   batch, i, calls, report, alerts, renorm, lra>>

\* process_menu_items returns after a batch
ReturnAfterBatch ==
    /\ pc = "complete"
    /\ ReturnToMain(tab)
    /\ UNCHANGED <<api_key, client, max_items, tab, text, ocr_failed, menu_items,
                   alerts, success, renorm, lra>>

Next ==
    \/ Setup
    \/ Sidebar
    \/ Tab1NoUpload
    \/ Tab1LoadError
    \/ Tab1Upload
    \/ Tab2Empty
    \/ Tab2Text
    \/ ClickGenerate
    \/ SkipGenerate
    \/ GenerateItem
    \/ FinishBatch
    \/ ReturnAfterBatch

Spec == Init /\ [][Next]_vars

(* ----------------------- LinearRegressionAnalysis --------------------- *)

\* most samples of a custom dataset
MaxSamples == 2
\* the custom datasets: X_data over two values, y_data over one
CustomX == SeqsUpTo({1, 2}, MaxSamples)
CustomY == SeqsUpTo({3}, MaxSamples)

\* np.random.uniform(500, 3000, 100): the seeded sample has 100 records
SampleSize == 100
SampleX == [k \in 1..SampleSize |-> 500 + k]
SampleY == [k \in 1..SampleSize |-> 100 * (500 + k)]

appVars == <<pc, api_key, client, max_items, tab, text, ocr_failed, menu_items,
             batch, i, calls, report, alerts, success, renorm>>

InitLR == pc = "analysis" /\ api_key = "" /\ Blank /\ text = <<>>

Called(op, result) == [op |-> op, result |-> result, lens |-> <<0, 0>>]

\* a mutant of RequireFitted: loaded data taken for a fitted model
RequireLoaded(o) == o.X # None

\* the test of predict_new_values, model_summary and visualize_results:
\* if not self.is_fitted: raise ValueError
RequireFitted(o) == o.is_fitted

\* fit_model's test: if self.X is None or self.y is None: raise ValueError
HasData(o) == ~(o.X = None \/ o.y = None)

\* load_custom_data's test of len(X_data) != len(y_data)
SameLength(X_data, y_data) == Len(X_data) = Len(y_data)

\* LinearRegression.fit raises ValueError on a dataset of no samples
LibraryFits(X, y) == Len(X) > 0

\* plt.plot(self.X, self.y_pred) raises ValueError when the two differ in
\* length, and has nothing to plot while they are None
Plottable(o) ==
    /\ o.X # None
    /\ o.y_pred # None
    /\ Len(o.X[1]) = Len(o.y_pred[1].over)

load_sample_data ==
    /\ pc = "analysis"
    /\ lra' = [lra EXCEPT !.X = Some(SampleX), !.y = Some(SampleY),
                          !.last = Called("load_sample_data", "ok")]
    /\ UNCHANGED appVars

load_custom_data ==
    /\ pc = "analysis"
    /\ \E X_data \in CustomX, y_data \in CustomY :
         LET call == [op |-> "load_custom_data",
                      result |-> IF SameLength(X_data, y_data) THEN "ok" ELSE "ValueError",
                      lens |-> <<Len(X_data), Len(y_data)>>]
         IN IF SameLength(X_data, y_data)
            THEN lra' = [lra EXCEPT !.X = Some(X_data), !.y = Some(y_data), !.last = call]
            ELSE lra' = [lra EXCEPT !.last = call]
    /\ UNCHANGED appVars

fit_model ==
    /\ pc = "analysis"
    /\ IF ~HasData(lra)
       THEN lra' = [lra EXCEPT !.last = Called("fit_model", "ValueError")]
       ELSE LET X == lra.X[1]
                y == lra.y[1]
            IN IF ~LibraryFits(X, y)
               THEN lra' = [lra EXCEPT !.last = Called("fit_model", "ValueError")]
               ELSE lra' = [lra EXCEPT
                              !.fitted_on = Some([X |-> X, y |-> y]),
                              !.y_pred = Some([model |-> [X |-> X, y |-> y], over |-> X]),
                              !.metrics = Some([y |-> y, model |-> [X |-> X, y |-> y], over |-> X]),
                              !.is_fitted = TRUE,
                              !.last = Called("fit_model", "ok")]
    /\ UNCHANGED appVars

visualize_results ==
    /\ pc = "analysis"
    /\ lra' = [lra EXCEPT !.last =
                 Called("visualize_results",
                        IF RequireFitted(lra) /\ Plottable(lra) THEN "ok" ELSE "ValueError")]
    /\ UNCHANGED appVars

predict_new_values ==
    /\ pc = "analysis"
    /\ lra' = [lra EXCEPT !.last =
                 Called("predict_new_values", IF RequireFitted(lra) THEN "ok" ELSE "ValueError")]
    /\ UNCHANGED appVars

model_summary ==
    /\ pc = "analysis"
    /\ lra' = [lra EXCEPT !.last =
                 Called("model_summary", IF RequireFitted(lra) THEN "ok" ELSE "ValueError")]
    /\ UNCHANGED appVars

NextLR ==
    \/ load_custom_data
    \/ load_sample_data
    \/ fit_model
    \/ visualize_results
    \/ predict_new_values
    \/ model_summary

SpecLR == InitLR /\ [][NextLR]_vars

(* ============================== claims ================================ *)

\* the normalizer has run on text
Parsed == pc \in {"norm_parsed", "norm_done"}

TextLines == SplitLines(text)

Count(S) == Cardinality(S)

TextTeaTea == JoinLines(<<LineTea, LineTea>>)
TextTeasTeas == JoinLines(<<LineTeas, LineTeas>>)
TextPiePie == JoinLines(<<LinePie, LinePie>>)
ItemPie == <<"P", "i", "e">>
ItemSoda == <<"S", "o", "d", "a">>
ItemDal == <<"D", "a", "l">>

(* C1 as the spec states it: the normalizer is idempotent; for every text s,
   normalize(join(normalize(s), "\n")) = normalize(s). *)
C1_Idempotent == pc = "norm_done" => renorm = menu_items

\* an item the second pass leaves alone: longer than 3 characters and with no
\* whitespace at either end
StableItem(item) == Len(item) > MinLineLen /\ TrimLine(item) = item

(* C1 amended: feeding the cleaned items back in, one per line, returns the
   same list whenever every cleaned item is longer than 3 characters and
   neither begins nor ends with a whitespace character. *)
C1_IdempotentOnStableItems ==
    (pc = "norm_done" /\ \A k \in 1..Len(menu_items) : StableItem(menu_items[k]))
        => renorm = menu_items

\* two lines that the first pass cleaned and the second pass gives back
C1_Witness ==
    /\ pc = "norm_done"
    /\ text = JoinLines(<<LineSoda, LineTeas>>)
    /\ menu_items = <<ItemSoda, LineTeas>>
    /\ renorm = menu_items

(* C2 as the spec states it: "Tea\nTea" yields ["Tea", "Tea"]. *)
C2_TeaTeaKept == (Parsed /\ text = TextTeaTea) => menu_items = <<LineTea, LineTea>>

(* C2 amended: no deduplication; two identical lines that survive the
   filters both yield their cleaned name ("Teas\nTeas" gives ["Teas",
   "Teas"], "Pie 2\nPie 2" gives ["Pie", "Pie"]), while "Tea\nTea" gives the
   empty list, each line being no longer than 3 characters. *)
C2_NoDedup ==
    Parsed =>
        /\ text = TextTeasTeas => menu_items = <<LineTeas, LineTeas>>
        /\ text = TextPiePie => menu_items = <<ItemPie, ItemPie>>
        /\ text = TextTeaTea => menu_items = <<>>

C2_Witness == Parsed /\ text = TextPiePie /\ Len(menu_items) = 2 /\ menu_items[1] = menu_items[2]

\* punctuation marks of the alphabet
Punctuation == {"$", ".", "-", ","}

DigitsAndPunctuation(line) ==
    /\ line # <<>>
    /\ \A k \in 1..Len(line) : line[k] \in Digits \cup Punctuation

(* C3 as the spec states it: a line consisting only of digits and punctuation
   contributes no item. *)
C3_DigitPunctDropped ==
    Parsed => Len(menu_items) <= Count({k \in 1..Len(TextLines) : ~DigitsAndPunctuation(TextLines[k])})

\* a line of digits, periods, hyphens and spaces, and of currency markers
\* each directly before a digit
NumericOnly(line) ==
    \A k \in 1..Len(line) :
        \/ line[k] \in Digits \cup BoundaryChars
        \/ line[k] = "$" /\ k < Len(line) /\ line[k + 1] \in Digits

(* C3 amended: every input line that consists only of digits, periods,
   hyphens and spaces, and of currency markers each directly followed by a
   digit, contributes no item; other punctuation (a comma, a currency marker
   not followed by a digit) is kept, so that "$$$$" or "1,11" yields an item. *)
C3_NumericLinesDropped ==
    Parsed => Len(menu_items) <= Count({k \in 1..Len(TextLines) : ~NumericOnly(TextLines[k])})

\* a price line longer than 3 characters is dropped beside a line that is kept
C3_Witness ==
    /\ Parsed
    /\ text = JoinLines(<<LineTeas, LinePrice>>)
    /\ menu_items = <<LineTeas>>

(* C4: every item returned is non-empty, contains no digit, and neither
   begins nor ends with a space, a period or a hyphen. *)
C4_ItemsAreMenuItems ==
    Parsed =>
        \A k \in 1..Len(menu_items) :
            LET item == menu_items[k] IN
            /\ item # <<>>
            /\ \A j \in 1..Len(item) : item[j] \notin Digits
            /\ item[1] \notin {" ", ".", "-"}
            /\ item[Len(item)] \notin {" ", ".", "-"}

\* a line with a number and separators at both ends was cleaned
C4_Witness == Parsed /\ text = LineDal /\ menu_items = <<ItemDal>>

\* what a surviving line becomes
CleanedForm(rawline) == CleanLine(TrimLine(rawline))

\* the lines that are not dropped
Survivors ==
    {k \in 1..Len(TextLines) :
        Len(TrimLine(TextLines[k])) > 3 /\ CleanedForm(TextLines[k]) # <<>>}

\* the j-th surviving line, in source order
NthSurvivor(j) == CHOOSE k \in Survivors : Count({m \in Survivors : m <= k}) = j

(* C5: the output is exactly the sequence of cleaned forms of the non-dropped
   lines, one entry per surviving line, in source order. *)
C5_OrderPreserved ==
    Parsed =>
        /\ Len(menu_items) = Count(Survivors)
        /\ \A j \in 1..Len(menu_items) : menu_items[j] = CleanedForm(TextLines[NthSurvivor(j)])

\* two surviving lines with different cleaned forms, a dropped line between them
C5_Witness ==
    /\ Parsed
    /\ text = JoinLines(<<LineSoda, LineTea, LineDal>>)
    /\ menu_items = <<ItemSoda, ItemDal>>

\* a character no step removes: no digit, no currency marker, no boundary
\* character, no whitespace
Kept(c) == c \notin Digits \cup BoundaryChars \cup Whitespace \cup {"$"}

LongLines == {k \in 1..Len(TextLines) : Len(TrimLine(TextLines[k])) > 3}

(* C6: every line whose trimmed length is at most 3 is discarded whatever its
   content (the items are no more than the lines longer than 3, so the empty
   text and blank lines give the empty list), and no line longer than 3 is
   discarded by the length test (each such line holding a character that the
   cleaning keeps yields an item). *)
C6_LengthTest ==
    Parsed =>
        /\ Len(menu_items) <= Count(LongLines)
        /\ Len(menu_items) >= Count({k \in LongLines :
                                 \E j \in 1..Len(TextLines[k]) : Kept(TextLines[k][j])})
        /\ (\A k \in 1..Len(TextLines) : TrimLine(TextLines[k]) = <<>>) => menu_items = <<>>

\* a line of 3 letters is dropped and a line of 4 letters is kept
C6_Witness ==
    /\ Parsed
    /\ text = JoinLines(<<LineTea, LineTeas>>)
    /\ menu_items = <<LineTeas>>

\* process_menu_items is between the button and its return
InBatch == pc \in {"button", "generating", "complete"}

Failed(entry) == entry.returned = "None"

(* C7: once 'Generate Images' is triggered on a list of n items, the service
   is invoked exactly once per item, in list order; a failure (an exception
   or an empty result) is reported for its item, and the loop goes on to the
   remaining items whatever the earlier outcomes were. *)
C7_EveryItemGenerated ==
    pc \in {"generating", "complete"} =>
        /\ i <= Len(batch) /\ Len(calls) = i /\ Len(report) = i
        /\ \A k \in 1..i :
              /\ calls[k] = batch[k]
              /\ report[k].item = batch[k]
              /\ Failed(report[k]) =>
                    \E e \in 1..Len(report[k].errors) :
                        report[k].errors[e] = "failed_to_generate"
        /\ pc = "complete" => calls = batch
        /\ (pc = "generating" /\ i < Len(batch)) => ENABLED GenerateItem

\* a batch of two that went on to its second item after the first one failed
C7_Witness ==
    /\ pc = "complete"
    /\ Len(batch) = 2
    /\ batch[1] # batch[2]
    /\ Failed(report[1])
    /\ report[2].shown

NoKey == api_key \in {Unset, ""}

(* C8: when GEMINI_API_KEY is absent or empty, main reports a setup error and
   performs no processing: no extraction, no normalization, no generation. *)
C8_NoKeyNoProcessing ==
    NoKey =>
        /\ pc \in {"start", "returned"}
        /\ pc = "returned" => alerts = {"setup_error"}
        /\ client = FALSE /\ tab = 0 /\ max_items = 0
        /\ text = <<>> /\ ocr_failed = FALSE /\ menu_items = <<>>
        /\ batch = <<>> /\ calls = <<>> /\ report = <<>>

C8_Witness == pc = "returned" /\ api_key = Unset /\ "setup_error" \in alerts

(* C9: when the OCR fails, extract_text_from_image reports an error and
   returns the empty string, and the upload path treats it as empty text:
   nothing is parsed or processed for that upload, no image is generated. *)
C9_FailedExtractionIsEmptyText ==
    (tab = 1 /\ ocr_failed) =>
        /\ text = <<>>
        /\ pc = "tab2"
        /\ alerts = {"ocr_error", "no_text"}
        /\ menu_items = <<>> /\ batch = <<>> /\ calls = <<>> /\ report = <<>>

C9_Witness == tab = 1 /\ ocr_failed /\ pc = "tab2" /\ "ocr_error" \in alerts

(* C10: the caller applies the bound: the list handed to process_menu_items
   is the prefix of the parsed items of length min(max_items, number of
   items), max_items is in 1..20, at most max_items generation calls are made
   per batch, and an empty list gives the 'no menu items' warning and no
   generation call. *)
C10_CallerTruncates ==
    /\ tab # 0 => max_items \in 1..20
    /\ InBatch =>
          /\ batch # <<>>
          /\ Len(batch) = (IF max_items <= Len(menu_items) THEN max_items ELSE Len(menu_items))
          /\ \A k \in 1..Len(batch) : batch[k] = menu_items[k]
          /\ Len(calls) <= max_items
    /\ "no_items" \in alerts =>
          /\ ~InBatch
          /\ text # <<>> /\ menu_items = <<>> /\ batch = <<>> /\ calls = <<>>
    /\ (tab # 0 /\ text # <<>> /\ menu_items = <<>>) => "no_items" \in alerts

\* a list of more than max_items items was cut and the cut list generated
C10_Witness ==
    /\ pc = "complete"
    /\ max_items = 2
    /\ Len(menu_items) = 3
    /\ calls = SubSeq(menu_items, 1, 2)

\* an empty list gave the warning
C10_WitnessEmpty == "no_items" \in alerts /\ text # <<>> /\ calls = <<>>

(* C13: after 'Generate Images' has run over a list of n items the success
   message is emitted exactly once, after the last item, and reports n, the
   number of items attempted, whatever the outcomes were. *)
C13_SuccessCountsAttempts ==
    /\ pc \in {"button", "generating"} => success = <<>>
    /\ pc = "complete" =>
          /\ success = <<Len(batch)>>
          /\ Len(report) = Len(batch)

\* the message reports 2 after a batch of two whose generations both failed
C13_Witness ==
    /\ pc = "complete"
    /\ Len(batch) = 2
    /\ \A k \in 1..2 : Failed(report[k])
    /\ success = <<2>>

\* the methods that need a fitted model
Queries == {"predict_new_values", "model_summary", "visualize_results"}

(* C11: predict_new_values, model_summary and visualize_results raise
   ValueError unless fit_model has completed before; fit_model raises
   ValueError and leaves is_fitted false unless data was loaded;
   load_custom_data with inputs of different lengths raises ValueError and
   leaves X and y unchanged. *)
C11_GuardsRaise ==
    [][LET call == lra'.last IN
       /\ (call.op \in Queries /\ lra.fitted_on = None) =>
             /\ call.result = "ValueError"
             /\ [lra' EXCEPT !.last = lra.last] = lra
       /\ (call.op = "fit_model" /\ (lra.X = None \/ lra.y = None)) =>
             /\ call.result = "ValueError"
             /\ ~lra'.is_fitted
       /\ (call.op = "load_custom_data" /\ call.lens[1] # call.lens[2]) =>
             /\ call.result = "ValueError"
             /\ lra'.X = lra.X /\ lra'.y = lra.y
       /\ (call.op \in Queries /\ call.result = "ok") => lra.fitted_on # None
      ]_vars

\* a query raised on an instance that holds data but was never fitted
C11_Witness ==
    /\ lra.last = Called("model_summary", "ValueError")
    /\ lra.X # None
    /\ lra.fitted_on = None

\* a rejected load_custom_data left the loaded data in place
C11_WitnessLoad ==
    /\ lra.last.op = "load_custom_data"
    /\ lra.last.result = "ValueError"
    /\ lra.X = Some(SampleX)

(* C12: whenever is_fitted is true the stored fit results (the fitted model,
   y_pred, mse and r2) were computed from the currently loaded X and y. *)
C12_FitMatchesData ==
    lra.is_fitted =>
        LET data == [X |-> lra.X[1], y |-> lra.y[1]] IN
        /\ lra.fitted_on = Some(data)
        /\ lra.y_pred = Some([model |-> data, over |-> data.X])
        /\ lra.metrics = Some([y |-> data.y, model |-> data, over |-> data.X])

\* model_summary ran on a dataset loaded after the fit
C12_StaleSummary ==
    /\ lra.last = Called("model_summary", "ok")
    /\ lra.fitted_on # Some([X |-> lra.X[1], y |-> lra.y[1]])

====
